---- MODULE Spec2Model ----
(***************************************************************************)
(* Model of app-server/src/ch/evaluation_scores.rs: the flattening of      *)
(* per-datapoint evaluation results into EvaluationScore rows, the batch   *)
(* insert into the evaluation_scores table, and the three aggregate        *)
(* queries (average, histogram buckets, global bounds).                    *)
(*                                                                         *)
(* f64 values are modelled by integers and by exact rationals <<num, den>> *)
(* (den = 0 stands for the non-finite results inf / NaN of a division by   *)
(* zero).  Strings that are inspected character by character (metric names *)
(* handed to the injection guard) are sequences of one-character strings.  *)
(***************************************************************************)
EXTENDS Integers, Sequences, FiniteSets

\* ---------------------------------------------------------------- bounds
\* longest points / result_ids sequence handed to the Flattener
MaxPoints == 2
\* longest batch handed to the Inserter
MaxBatch == 3
\* rows the table may grow to through inserts
MaxTable == 4
\* rows in the table the queries run on
MaxStore == 2
\* score values and upper bounds range over 0..MaxValue
MaxValue == 3
\* largest bucket_count asked for
MaxBuckets == 3

\* ------------------------------------------------------------- universes
ProjectIds == {1, 2}
EvaluationIds == {1, 2}
ResultIds == {1, 2}
GroupIds == {"g", "h"}
Timestamps == {0}
\* metric names; the last three carry a quote, a statement separator and a
\* comment marker
NameA == <<"a">>
NameB == <<"b">>
GoodNames == {NameA, NameB}
BadNames == {<<"a", "'">>, <<"a", ";">>, <<"-", "-">>}
Names == GoodNames \cup BadNames
Values == 0..MaxValue

Min(a, b) == IF a <= b THEN a ELSE b

SeqsUpTo(S, n) == UNION {[1..k -> S] : k \in 0..n}

\* every enumeration order of a finite set (HashMap iteration order)
Orders(S) == {s \in [1..Cardinality(S) -> S] : \A i, j \in DOMAIN s : i # j => s[i] # s[j]}

VARIABLES
    \* Flattener: the last call's arguments and its returned Vec
    fl_in, fl_out, fpc,
    \* the evaluation_scores table: a bag of rows (row -> number of copies)
    store,
    \* Inserter: position in insert_evaluation_scores, its argument, the index
    \* of the next row to write, and the calls made on the client and on the
    \* insert handle
    ipc, batch, inext, opens, writes, ends, iresult,
    \* queries: position in the running query function, its arguments, the
    \* queries handed to execute_query, what execute_query returned, and the
    \* value returned to the caller
    qpc, qcall, sent, resp, qresult

vars == <<fl_in, fl_out, fpc, store, ipc, batch, inext, opens, writes, ends, iresult,
          qpc, qcall, sent, resp, qresult>>
flVars == <<fl_in, fl_out, fpc>>
insVars == <<ipc, batch, inext, opens, writes, ends, iresult>>
qVars == <<qpc, qcall, sent, resp, qresult>>

\* --------------------------------------------------------------- bags
EmptyBag == [r \in {} |-> 0]

BagOf(s) == [r \in {s[i] : i \in DOMAIN s} |-> Cardinality({i \in DOMAIN s : s[i] = r})]

BagPlus(a, b) ==
    [r \in DOMAIN a \cup DOMAIN b |->
        (IF r \in DOMAIN a THEN a[r] ELSE 0) + (IF r \in DOMAIN b THEN b[r] ELSE 0)]

RECURSIVE SumOver(_, _)
\* the sum of f[x] over the x of S
SumOver(f, S) ==
    IF S = {} THEN 0
    ELSE LET x == CHOOSE y \in S : TRUE IN f[x] + SumOver(f, S \ {x})

BagSize(b) == SumOver(b, DOMAIN b)

\* ------------------------------------------------------------ Score model
EvaluationScore(project_id, group_id, evaluation_id, result_id, name, value, timestamp) ==
    [project_id |-> project_id, group_id |-> group_id, evaluation_id |-> evaluation_id,
     result_id |-> result_id, name |-> name, value |-> value, timestamp |-> timestamp]

\* ---------------------------------------------------------------- Flattener
\* EvaluationDatapointResult.scores: a map from metric name to value
ScoreMaps == UNION {[d -> 0..1] : d \in SUBSET GoodNames}

\* point.scores.iter().map(...): one row per entry, in the map's iteration
\* order `ord` (an enumeration of the map's keys)
PointRows(scores, ord, result_id, project_id, group_id, evaluation_id, timestamp) ==
    [k \in 1..Len(ord) |->
        EvaluationScore(project_id, group_id, evaluation_id, result_id,
                        ord[k], scores[ord[k]], timestamp)]

RECURSIVE FlatMap(_, _, _, _, _, _, _, _)
\* points.iter().zip(result_ids.iter()).flat_map(...) from pair i on; zip
\* stops at the end of the shorter sequence
FlatMap(i, points, result_ids, ords, project_id, group_id, evaluation_id, timestamp) ==
    IF i > Len(points) \/ i > Len(result_ids) THEN <<>>
    ELSE PointRows(points[i], ords[i], result_ids[i], project_id, group_id,
                   evaluation_id, timestamp)
         \o FlatMap(i + 1, points, result_ids, ords, project_id, group_id,
                    evaluation_id, timestamp)

\* faulty variant: every row gets the first result id instead of its pair's
RECURSIVE FlatMapFirstId(_, _, _, _, _, _, _, _)
FlatMapFirstId(i, points, result_ids, ords, project_id, group_id, evaluation_id, timestamp) ==
    IF i > Len(points) \/ i > Len(result_ids) THEN <<>>
    ELSE PointRows(points[i], ords[i], result_ids[1], project_id, group_id,
                   evaluation_id, timestamp)
         \o FlatMapFirstId(i + 1, points, result_ids, ords, project_id, group_id,
                           evaluation_id, timestamp)

from_evaluation_datapoint_results_mut(points, result_ids, ords, project_id, group_id, evaluation_id, timestamp) ==
    FlatMapFirstId(1, points, result_ids, ords, project_id, group_id, evaluation_id, timestamp)

from_evaluation_datapoint_results(points, result_ids, ords, project_id, group_id, evaluation_id, timestamp) ==
    FlatMap(1, points, result_ids, ords, project_id, group_id, evaluation_id, timestamp)

FlattenInputs ==
    [points : SeqsUpTo(ScoreMaps, MaxPoints), result_ids : SeqsUpTo(ResultIds, MaxPoints),
     project_id : ProjectIds, group_id : GroupIds, evaluation_id : EvaluationIds,
     timestamp : Timestamps]

\* the caller's call of the Flattener on the arguments fl_in
Flatten ==
    /\ fpc = "call"
    /\ \E ords \in [DOMAIN fl_in.points -> UNION {Orders(d) : d \in SUBSET GoodNames}] :
        /\ \A i \in DOMAIN ords : ords[i] \in Orders(DOMAIN fl_in.points[i])
        /\ fl_out' = from_evaluation_datapoint_results(fl_in.points, fl_in.result_ids, ords,
                         fl_in.project_id, fl_in.group_id, fl_in.evaluation_id,
                         fl_in.timestamp)
    /\ fpc' = "done"
    /\ UNCHANGED <<fl_in, store, insVars, qVars>>

NoCall == [points |-> <<>>, result_ids |-> <<>>, project_id |-> 1, group_id |-> "g",
           evaluation_id |-> 1, timestamp |-> 0]

\* a Flattener call about to be made, on any arguments; nothing else running
InitFlatten ==
    /\ fl_in \in FlattenInputs /\ fl_out = <<>> /\ fpc = "call"
    /\ store = EmptyBag
    /\ ipc = "idle" /\ batch = <<>> /\ inext = 1 /\ opens = 0 /\ writes = <<>>
    /\ ends = 0 /\ iresult = "none"
    /\ qpc = "idle" /\ qcall = [op |-> "none"] /\ sent = <<>>
    /\ resp = [kind |-> "none"] /\ qresult = [kind |-> "none"]

SpecFlatten == InitFlatten /\ [][Flatten]_vars

\* the positional pairs zip yields
Pairs == 1..Min(Len(fl_in.points), Len(fl_in.result_ids))

RECURSIVE MetricCount(_)
MetricCount(n) == IF n = 0 THEN 0 ELSE Cardinality(DOMAIN fl_in.points[n]) + MetricCount(n - 1)

RowFrom(row, i, name) ==
    /\ row.result_id = fl_in.result_ids[i]
    /\ row.name = name
    /\ row.value = fl_in.points[i][name]
    /\ row.project_id = fl_in.project_id
    /\ row.group_id = fl_in.group_id
    /\ row.evaluation_id = fl_in.evaluation_id
    /\ row.timestamp = fl_in.timestamp

\* the pair a row at position j of the output belongs to, counting rows
PairOf(j) == CHOOSE i \in Pairs : MetricCount(i - 1) < j /\ j <= MetricCount(i)

\* C7: the Flattener emits, for the positional pairs (points[i], result_ids[i]),
\* exactly one row per (name, value) entry of points[i]: the number of rows is
\* the sum of the pairs' metric counts, and every row carries its pair's
\* result_id, an entry of its pair's point, and the call's project_id,
\* group_id, evaluation_id and timestamp.
C7_FlattenRows ==
    fpc = "done" =>
    /\ Len(fl_out) = MetricCount(Min(Len(fl_in.points), Len(fl_in.result_ids)))
    /\ \A j \in DOMAIN fl_out :
         \E name \in DOMAIN fl_in.points[PairOf(j)] : RowFrom(fl_out[j], PairOf(j), name)
    /\ \A i \in Pairs : \A name \in DOMAIN fl_in.points[i] :
         \E j \in DOMAIN fl_out : PairOf(j) = i /\ RowFrom(fl_out[j], i, name)

\* a call with sequences of unequal length, a point without metrics and a
\* point with two, whose pairs have different result ids
C7_Witness ==
    /\ fpc = "done"
    /\ Len(fl_in.points) = 2 /\ Len(fl_in.result_ids) = 2
    /\ fl_in.result_ids[1] # fl_in.result_ids[2]
    /\ Cardinality(DOMAIN fl_in.points[1]) = 1
    /\ Cardinality(DOMAIN fl_in.points[2]) = 2
    /\ Len(fl_out) = 3

\* ----------------------------------------------------------------- Inserter
\* the rows the queries may find in the table
StoreRows ==
    [project_id : ProjectIds, group_id : {"g"}, evaluation_id : EvaluationIds,
     result_id : {1}, name : {NameA}, value : Values, timestamp : {0}]

\* the rows a caller hands to the Inserter
BatchRows ==
    [project_id : {1}, group_id : {"g"}, evaluation_id : {1},
     result_id : {1}, name : {NameA}, value : 0..1, timestamp : {0}]

\* what the table may hold of a batch whose insert reported an error: the store
\* promises nothing, here any prefix of the rows written so far
Persisted(rows) == {SubSeq(rows, 1, k) : k \in 0..Len(rows)}

WrittenRows == [i \in 1..(inext - 1) |-> batch[i]]

\* faulty variant: no early return on an empty batch
insert_evaluation_scores_noshortcut ==
    /\ ipc \in {"idle", "done"}
    /\ \E rows \in SeqsUpTo(BatchRows, MaxBatch) :
        /\ BagSize(store) + Len(rows) <= MaxTable
        /\ batch' = rows
        /\ inext' = 1 /\ writes' = <<>> /\ ends' = 0
        /\ opens' = 1
        /\ \/ ipc' = "writing" /\ iresult' = "none"
           \/ ipc' = "done" /\ iresult' = "ErrOpen"
    /\ UNCHANGED <<flVars, store, qVars>>

\* insert_evaluation_scores up to its first await: the empty-batch return and
\* clickhouse.insert("evaluation_scores"), which succeeds or fails
insert_evaluation_scores ==
    /\ ipc \in {"idle", "done"}
    /\ \E rows \in SeqsUpTo(BatchRows, MaxBatch) :
        /\ BagSize(store) + Len(rows) <= MaxTable
        /\ batch' = rows
        /\ inext' = 1 /\ writes' = <<>> /\ ends' = 0
        /\ IF rows = <<>>
           THEN opens' = 0 /\ ipc' = "done" /\ iresult' = "Ok"
           ELSE /\ opens' = 1
                /\ \/ ipc' = "writing" /\ iresult' = "none"
                   \/ ipc' = "done" /\ iresult' = "ErrOpen"
    /\ UNCHANGED <<flVars, store, qVars>>

\* faulty variant: a failed write is ignored and the loop goes on
insert_write_continue ==
    /\ ipc = "writing" /\ inext <= Len(batch)
    /\ \E ok \in BOOLEAN : writes' = Append(writes, [row |-> batch[inext], ok |-> ok])
    /\ inext' = inext + 1
    /\ UNCHANGED <<flVars, store, batch, opens, ends, ipc, iresult, qVars>>

\* one turn of the loop: ch_insert.write(&evaluation_score).await?
insert_write ==
    /\ ipc = "writing" /\ inext <= Len(batch)
    /\ \E ok \in BOOLEAN :
        /\ writes' = Append(writes, [row |-> batch[inext], ok |-> ok])
        /\ IF ok
           THEN inext' = inext + 1 /\ UNCHANGED <<ipc, iresult, store>>
           ELSE /\ ipc' = "done" /\ iresult' = "ErrWrite" /\ inext' = inext
                /\ \E kept \in Persisted(WrittenRows) : store' = BagPlus(store, BagOf(kept))
    /\ UNCHANGED <<flVars, batch, opens, ends, qVars>>

\* after the loop: ch_insert.end().await and the returned result
insert_end ==
    /\ ipc = "writing" /\ inext > Len(batch)
    /\ ends' = ends + 1
    /\ ipc' = "done"
    /\ \/ iresult' = "Ok" /\ store' = BagPlus(store, BagOf(batch))
       \/ /\ iresult' = "ErrCommit"
          /\ \E kept \in Persisted(batch) : store' = BagPlus(store, BagOf(kept))
    /\ UNCHANGED <<flVars, batch, inext, opens, writes, qVars>>

InsertNext == insert_evaluation_scores \/ insert_write \/ insert_end

\* an empty table and no call running
InitInsert ==
    /\ fl_in = NoCall /\ fl_out = <<>> /\ fpc = "done"
    /\ store = EmptyBag
    /\ ipc = "idle" /\ batch = <<>> /\ inext = 1 /\ opens = 0 /\ writes = <<>>
    /\ ends = 0 /\ iresult = "none"
    /\ qpc = "idle" /\ qcall = [op |-> "none"] /\ sent = <<>>
    /\ resp = [kind |-> "none"] /\ qresult = [kind |-> "none"]

SpecInsert == InitInsert /\ [][InsertNext]_vars

\* C8: a call of insert_evaluation_scores with an empty sequence returns
\* success, and along that call no write scope is opened, no row is written and
\* no commit is issued.
C8_EmptyInsert ==
    (ipc # "idle" /\ batch = <<>>) =>
        /\ ipc = "done" /\ iresult = "Ok"
        /\ opens = 0 /\ writes = <<>> /\ ends = 0

\* an empty batch inserted after an earlier, non-empty one went through
C8_Witness ==
    ipc = "done" /\ batch = <<>> /\ iresult = "Ok" /\ store # EmptyBag

\* C10: on a non-empty batch the rows are written one at a time in input order;
\* after a failed write no further row is written, no commit is issued and the
\* call returns an error; the commit is issued only after every row was written
\* successfully, and success is returned only after a commit.
C10_InsertOrder ==
    batch # <<>> =>
        /\ \A i \in DOMAIN writes : i <= Len(batch) /\ writes[i].row = batch[i]
        /\ \A i \in DOMAIN writes : ~writes[i].ok =>
              /\ i = Len(writes)
              /\ ends = 0
              /\ ipc = "done" /\ iresult = "ErrWrite"
        /\ ends <= 1
        /\ ends = 1 =>
              /\ Len(writes) = Len(batch)
              /\ \A i \in DOMAIN writes : writes[i].ok
        /\ iresult = "Ok" => ends = 1
        /\ ipc = "done" => iresult \in {"Ok", "ErrOpen", "ErrWrite", "ErrCommit"}

\* the second of three rows failed to be written after the first went through
C10_Witness ==
    /\ Len(batch) = 3 /\ batch[1] # batch[2]
    /\ Len(writes) = 2 /\ writes[1].ok /\ ~writes[2].ok
    /\ ipc = "done" /\ iresult = "ErrWrite"

\* ----------------------------------------------------------- Injection Guard
Contains(s, c) == \E i \in DOMAIN s : s[i] = c

ContainsPair(s, c, d) == \E i \in 1..(Len(s) - 1) : s[i] = c /\ s[i + 1] = d

\* TRUE when the guard returns Ok(()): no quote, no statement separator, no
\* comment marker
validate_string_against_injection(name) ==
    ~(Contains(name, "'") \/ Contains(name, ";") \/ ContainsPair(name, "-", "-"))

\* ------------------------------------------------------------------ rationals
\* l + k * step, for an integer l and a rational step
Edge(l, k, step) == <<l * step[2] + k * step[1], step[2]>>

Whole(v) == <<v, 1>>

\* comparisons of an integer value with a rational of positive denominator
GeRat(v, r) == v * r[2] >= r[1]
LtRat(v, r) == v * r[2] < r[1]
LeRat(v, r) == v * r[2] <= r[1]

\* ------------------------------------------------------------------- queries
NoResponse == [kind |-> "none"]
NoResult == [kind |-> "none"]
InvalidName == [kind |-> "Err", error |-> "InvalidInput"]
QueryFailed == [kind |-> "Err", error |-> "StoreQueryFailure"]
Panicked == [kind |-> "Panic"]
OkResult(v) == [kind |-> "Ok", value |-> v]

\* WHERE project_id = '{project_id}' AND evaluation_id = '{evaluation_id}'
\* AND name = '{name}'
Matching(table, q) ==
    {r \in DOMAIN table : /\ r.project_id = q.project_id
                          /\ r.evaluation_id = q.evaluation_id
                          /\ r.name = q.name}

\* WHERE project_id = '{project_id}' AND evaluation_id IN ({evaluation_ids_str})
\* AND name = '{name}'
MatchingIn(table, q) ==
    {r \in DOMAIN table : /\ r.project_id = q.project_id
                          /\ \E i \in DOMAIN q.evaluation_ids : r.evaluation_id = q.evaluation_ids[i]
                          /\ r.name = q.name}

Copies(table, M) == SumOver(table, M)

SetMax(S) == CHOOSE x \in S : \A y \in S : y <= x

\* An aggregate without GROUP BY over no row at all: one row holding the
\* aggregate's value of the empty set, or no row, as the server is configured
AggregateRows(M, row) == IF M = {} THEN {<<row>>, <<>>} ELSE {<<row>>}

\* SELECT avg(value) as average_value: <<sum, count>>, <<0, 0>> being NaN
AverageRows(table, q) ==
    LET M == Matching(table, q)
    IN AggregateRows(M, [average_value |->
           <<SumOver([r \in M |-> table[r] * r.value], M), Copies(table, M)>>])

\* SELECT MAX(value) AS upper_bound
BoundsRows(table, q) ==
    LET M == MatchingIn(table, q)
    IN AggregateRows(M, [upper_bound |->
           IF M = {} THEN 0 ELSE SetMax({r.value : r \in M})])

\* intervals.lower_bound: {lower_bound} + ((interval_num - 1) * {step_size})
IntervalLower(q, interval_num) == Edge(q.lower_bound, interval_num - 1, q.step_size)

\* intervals.upper_bound: the CASE on interval_num = {bucket_count}
IntervalUpper(q, interval_num) ==
    IF interval_num = q.bucket_count THEN Whole(q.upper_bound)
    ELSE Edge(q.lower_bound, interval_num, q.step_size)

\* faulty variant: the last bucket is half-open like the others
CountedHalfOpen(value, lo, up, interval_num, bucket_count) ==
    GeRat(value, lo) /\ LtRat(value, up)

\* the CASE inside COUNT: TRUE when the row counts for the interval
Counted(value, lo, up, interval_num, bucket_count) ==
    CASE GeRat(value, lo) /\ LtRat(value, up) -> TRUE
      [] interval_num = bucket_count /\ GeRat(value, lo) /\ LeRat(value, up) -> TRUE
      [] OTHER -> FALSE

\* FROM evaluation_scores JOIN intervals ON 1 = 1 WHERE ... GROUP BY the
\* interval ORDER BY interval_num: one row per interval that some matching row
\* was joined with
BucketRows(table, q) ==
    LET M == Matching(table, q)
    IN IF M = {} THEN <<>>
       ELSE [k \in DOMAIN q.interval_nums |->
               LET lo == IntervalLower(q, q.interval_nums[k])
                   up == IntervalUpper(q, q.interval_nums[k])
               IN [lower_bound |-> lo, upper_bound |-> up,
                   height |-> SumOver([r \in M |->
                       IF Counted(r.value, lo, up, q.interval_nums[k], q.bucket_count)
                       THEN table[r] ELSE 0], M)]]

\* execute_query: the store fails, or answers with the query's rows
execute_query(table, q) ==
    {[kind |-> "Err"]} \cup
    {[kind |-> "Ok", rows |-> rows] : rows \in
        CASE q.kind = "average" -> AverageRows(table, q)
          [] q.kind = "bounds" -> BoundsRows(table, q)
          [] q.kind = "buckets" -> {BucketRows(table, q)}}

\* faulty variant: the query is sent without asking the guard
get_average_evaluation_score_unguarded ==
    /\ qpc = "idle"
    /\ \E project_id \in ProjectIds, evaluation_id \in EvaluationIds, name \in Names :
        /\ qcall' = [op |-> "average", project_id |-> project_id,
                     evaluation_id |-> evaluation_id, name |-> name]
        /\ sent' = <<[kind |-> "average", project_id |-> project_id,
                      evaluation_id |-> evaluation_id, name |-> name]>>
        /\ qpc' = "awaiting" /\ qresult' = NoResult
    /\ UNCHANGED <<flVars, store, insVars, resp>>

\* get_average_evaluation_score up to the await of execute_query
get_average_evaluation_score ==
    /\ qpc = "idle"
    /\ \E project_id \in ProjectIds, evaluation_id \in EvaluationIds, name \in Names :
        /\ qcall' = [op |-> "average", project_id |-> project_id,
                     evaluation_id |-> evaluation_id, name |-> name]
        /\ IF validate_string_against_injection(name)
           THEN /\ sent' = <<[kind |-> "average", project_id |-> project_id,
                              evaluation_id |-> evaluation_id, name |-> name]>>
                /\ qpc' = "awaiting" /\ qresult' = NoResult
           ELSE sent' = <<>> /\ qpc' = "done" /\ qresult' = InvalidName
    /\ UNCHANGED <<flVars, store, insVars, resp>>

\* get_average_evaluation_score from the answer on: `?`, then rows[0]
get_average_evaluation_score_await ==
    /\ qpc = "awaiting" /\ qcall.op = "average"
    /\ \E r \in execute_query(store, sent[1]) :
        /\ resp' = r
        /\ qresult' = IF r.kind = "Err" THEN QueryFailed
                      ELSE IF r.rows = <<>> THEN Panicked
                      ELSE OkResult(r.rows[1].average_value)
    /\ qpc' = "done"
    /\ UNCHANGED <<flVars, store, insVars, qcall, sent>>

LowerBounds == 0..1

\* (1..=bucket_count), joined with ","
IntervalNums(bucket_count) == [i \in 1..bucket_count |-> i]

\* get_evaluation_score_buckets_based_on_bounds up to the await
get_evaluation_score_buckets_based_on_bounds ==
    /\ qpc = "idle"
    /\ \E project_id \in ProjectIds, evaluation_id \in EvaluationIds, name \in Names,
          lower_bound \in LowerBounds, upper_bound \in Values,
          bucket_count \in 0..MaxBuckets :
        /\ qcall' = [op |-> "buckets", project_id |-> project_id,
                     evaluation_id |-> evaluation_id, name |-> name,
                     lower_bound |-> lower_bound, upper_bound |-> upper_bound,
                     bucket_count |-> bucket_count]
        /\ IF validate_string_against_injection(name)
           THEN /\ sent' = <<[kind |-> "buckets", project_id |-> project_id,
                              evaluation_id |-> evaluation_id, name |-> name,
                              interval_nums |-> IntervalNums(bucket_count),
                              lower_bound |-> lower_bound,
                              step_size |-> <<upper_bound - lower_bound, bucket_count>>,
                              upper_bound |-> upper_bound,
                              bucket_count |-> bucket_count]>>
                /\ qpc' = "awaiting" /\ qresult' = NoResult
           ELSE sent' = <<>> /\ qpc' = "done" /\ qresult' = InvalidName
    /\ UNCHANGED <<flVars, store, insVars, resp>>

\* get_evaluation_score_buckets_based_on_bounds from the answer on
get_evaluation_score_buckets_based_on_bounds_await ==
    /\ qpc = "awaiting" /\ qcall.op = "buckets"
    /\ \E r \in execute_query(store, sent[1]) :
        /\ resp' = r
        /\ qresult' = IF r.kind = "Err" THEN QueryFailed ELSE OkResult(r.rows)
    /\ qpc' = "done"
    /\ UNCHANGED <<flVars, store, insVars, qcall, sent>>

\* get_global_evaluation_scores_bounds up to the await
get_global_evaluation_scores_bounds ==
    /\ qpc = "idle"
    /\ \E project_id \in ProjectIds, name \in Names,
          evaluation_ids \in SeqsUpTo(EvaluationIds, Cardinality(EvaluationIds)) :
        /\ qcall' = [op |-> "bounds", project_id |-> project_id,
                     evaluation_ids |-> evaluation_ids, name |-> name]
        /\ IF validate_string_against_injection(name)
           THEN /\ sent' = <<[kind |-> "bounds", project_id |-> project_id,
                              evaluation_ids |-> evaluation_ids, name |-> name]>>
                /\ qpc' = "awaiting" /\ qresult' = NoResult
           ELSE sent' = <<>> /\ qpc' = "done" /\ qresult' = InvalidName
    /\ UNCHANGED <<flVars, store, insVars, resp>>

\* get_global_evaluation_scores_bounds from the answer on: `?`, then rows[0]
get_global_evaluation_scores_bounds_await ==
    /\ qpc = "awaiting" /\ qcall.op = "bounds"
    /\ \E r \in execute_query(store, sent[1]) :
        /\ resp' = r
        /\ qresult' = IF r.kind = "Err" THEN QueryFailed
                      ELSE IF r.rows = <<>> THEN Panicked
                      ELSE OkResult(r.rows[1])
    /\ qpc' = "done"
    /\ UNCHANGED <<flVars, store, insVars, qcall, sent>>

QueryNext ==
    \/ get_average_evaluation_score
    \/ get_average_evaluation_score_await
    \/ get_evaluation_score_buckets_based_on_bounds
    \/ get_evaluation_score_buckets_based_on_bounds_await
    \/ get_global_evaluation_scores_bounds
    \/ get_global_evaluation_scores_bounds_await

\* the table holds whatever earlier inserts left in it
StoreContents == {BagOf(s) : s \in SeqsUpTo(StoreRows, MaxStore)}

InitQuery ==
    /\ fl_in = NoCall /\ fl_out = <<>> /\ fpc = "done"
    /\ store \in StoreContents
    /\ ipc = "idle" /\ batch = <<>> /\ inext = 1 /\ opens = 0 /\ writes = <<>>
    /\ ends = 0 /\ iresult = "none"
    /\ qpc = "idle" /\ qcall = [op |-> "none"] /\ sent = <<>>
    /\ resp = NoResponse /\ qresult = NoResult

SpecQuery == InitQuery /\ [][QueryNext]_vars

\* ------------------------------------------------------------------- claims
NameOk == validate_string_against_injection(qcall.name)

BucketsReturned == qpc = "done" /\ qcall.op = "buckets" /\ qresult.kind = "Ok"

\* the rows of the table the running call's filter selects
Selected == IF qcall.op = "bounds" THEN MatchingIn(store, qcall) ELSE Matching(store, qcall)

\* C1: when execute_query returns zero rows, get_average_evaluation_score
\* returns an explicit NoData outcome, and it never indexes an empty result
\* (no panic is reachable).
C1_AverageNoData ==
    qcall.op = "average" =>
        /\ qresult.kind # "Panic"
        /\ (qpc = "done" /\ resp.kind = "Ok" /\ resp.rows = <<>>) => qresult.kind = "NoData"

\* C2: with an empty evaluation_ids, or when the query returns zero rows,
\* get_global_evaluation_scores_bounds returns an explicit NoData outcome: no
\* unchecked read of an empty result, no query failure, no panic.
C2_BoundsNoData ==
    (qcall.op = "bounds" /\ qpc = "done" /\ NameOk) =>
        ((qcall.evaluation_ids = <<>> \/ (resp.kind = "Ok" /\ resp.rows = <<>>))
            => qresult.kind = "NoData")

\* C3: a histogram call with bucket_count < 1 or upper_bound <= lower_bound
\* returns InvalidInput and hands no query to the store.
C3_BoundsRejected ==
    (qcall.op = "buckets" /\ (qcall.bucket_count < 1 \/ qcall.upper_bound <= qcall.lower_bound)) =>
        /\ sent = <<>>
        /\ qpc = "done" /\ qresult = InvalidName

\* C4: for bucket_count >= 1 and upper_bound > lower_bound the histogram holds
\* exactly bucket_count buckets, in ascending order, whatever the table holds;
\* a bucket no row falls in is there with height 0.
C4_EveryBucket ==
    (BucketsReturned /\ qcall.bucket_count >= 1 /\ qcall.upper_bound > qcall.lower_bound) =>
        /\ Len(qresult.value) = qcall.bucket_count
        /\ \A i, j \in DOMAIN qresult.value : i < j =>
              qresult.value[i].lower_bound[1] * qresult.value[j].lower_bound[2]
                < qresult.value[j].lower_bound[1] * qresult.value[i].lower_bound[2]

RECURSIVE SumHeights(_, _)
SumHeights(rows, k) == IF k = 0 THEN 0 ELSE rows[k].height + SumHeights(rows, k - 1)

InRange(v) == qcall.lower_bound <= v /\ v <= qcall.upper_bound

\* C5: when every matching row's value lies in [lower_bound, upper_bound], the
\* heights of the returned buckets add up to the number of matching rows.
C5_HeightsSum ==
    (BucketsReturned /\ \A r \in Selected : InRange(r.value)) =>
        SumHeights(qresult.value, Len(qresult.value)) = Copies(store, Selected)

\* the same sum for the calls that ask for at least one bucket
HeightsSumWithBuckets ==
    (BucketsReturned /\ qcall.bucket_count >= 1 /\ \A r \in Selected : InRange(r.value)) =>
        SumHeights(qresult.value, Len(qresult.value)) = Copies(store, Selected)

\* the claim's bucket i, with n = bucket_count and every edge multiplied by n:
\* [lower + (i-1)*step, lower + i*step) for i < n, closed at upper_bound for i = n
InBucket(v, i) ==
    LET n == qcall.bucket_count
        width == qcall.upper_bound - qcall.lower_bound
    IN /\ InRange(v)
       /\ n * qcall.lower_bound + (i - 1) * width <= n * v
       /\ IF i < n THEN n * v < n * qcall.lower_bound + i * width
          ELSE v <= qcall.upper_bound

\* C6: bucket i < bucket_count counts exactly the values v with
\* lower + (i-1)*step <= v < lower + i*step; the last bucket ends at the
\* requested upper_bound and counts a value equal to it; a value below
\* lower_bound or above upper_bound is counted nowhere.
C6_BucketEdges ==
    BucketsReturned =>
        /\ \A i \in DOMAIN qresult.value :
              qresult.value[i].height =
                  Copies(store, {r \in Selected : InBucket(r.value, i)})
        /\ \A i \in DOMAIN qresult.value : i = qcall.bucket_count =>
              qresult.value[i].upper_bound = <<qcall.upper_bound, 1>>

\* two buckets over [0, 2] and two matching rows: 1, on the inner boundary, and
\* 2, the upper bound, are both counted in the last bucket
C6_Witness ==
    /\ BucketsReturned
    /\ qcall.lower_bound = 0 /\ qcall.upper_bound = 2 /\ qcall.bucket_count = 2
    /\ {r.value : r \in Selected} = {1, 2}
    /\ Len(qresult.value) = 2
    /\ qresult.value[1].height = 0 /\ qresult.value[2].height = 2

\* C9: each query function asks the guard before it builds or sends its query:
\* a query is sent only for an accepted name, and a rejected name ends the call
\* with the guard's error, no query sent.
C9_GuardFirst ==
    qcall.op # "none" =>
        /\ sent # <<>> => NameOk
        /\ ~NameOk =>
              /\ sent = <<>> /\ resp = NoResponse
              /\ qpc = "done" /\ qresult = InvalidName

\* a bounds call on a name holding a comment marker was turned down
C9_Witness ==
    /\ qcall.op = "bounds" /\ qcall.name = <<"-", "-">>
    /\ qpc = "done" /\ qresult = InvalidName /\ sent = <<>>

====
